---- MODULE Spec2Model ----
(***************************************************************************)
(* Model of the buzzer core of server.js: the global state (teams,         *)
(* ranked, questionActive), the socket.io event handlers of one            *)
(* connection, and the messages each handler emits.                        *)
(*                                                                         *)
(* Node runs every handler to completion, so each handler is one action.   *)
(* sent holds, per socket, the messages the handler that ran last emitted  *)
(* to it, and log the line it wrote to the console.                        *)
(*                                                                         *)
(* Spec is the server alone. SpecNet adds the transport and the clients:   *)
(* the emitted messages travel in order on each connection (inbox) and a   *)
(* client keeps the last payload it received of each kind (view).          *)
(***************************************************************************)
EXTENDS Integers, Sequences, FiniteSets, TLC

VARIABLES teams, ranked, questionActive, live, meta, sent, log, inbox, view

vars == <<teams, ranked, questionActive, live, meta, sent, log, inbox, view>>

(***************************************************************************)
(* Bounds of the model.                                                    *)
(***************************************************************************)
MaxRanked == 2
MaxPending == 0

\* the sockets that may connect
Conns == {"s1", "s2"}

(***************************************************************************)
(* JavaScript values.                                                      *)
(***************************************************************************)
\* undefined / null, and the falsy empty string of a missing payload field
Undefined == "undefined"
Missing == ""

\* the payload of an event sent without an argument (or with null)
NoData == [none |-> TRUE]

(***************************************************************************)
(* generateId: Date.now() in base 36, "-", six base-36 digits of           *)
(* Math.random(). Both parts are inputs of the environment: the clock      *)
(* returns the same value for two calls within one millisecond and the     *)
(* random part ranges over a finite set. The string "t-r" is <<t, r>>.     *)
(***************************************************************************)
Times == {1}
Rands == {1, 2}

generateId(t, r) == <<t, r>>

GeneratedIds == {generateId(t, r) : t \in Times, r \in Rands}

(***************************************************************************)
(* teams is a plain object literal: reading teams[k] falls back to         *)
(* Object.prototype for a key that is not an own property. "constructor"   *)
(* stands for the inherited keys; its value is the function Object, whose  *)
(* name is "Object" and which has no color.                                *)
(***************************************************************************)
InheritedKeys == {<<"constructor">>}

InheritedValue(k) == [name |-> "Object", color |-> Undefined]

PropertyKeys == GeneratedIds \cup InheritedKeys

\* tid of a buzzerPress / register payload: a string, or an array holding one
\* string (any JSON value can be sent); Missing when the field is absent.
TidValues ==
  [form : {"string"}, key : PropertyKeys] \cup {[form |-> "array", key |-> generateId(1, 1)]}

NoTid == [form |-> "string", key |-> <<>>]

\* ToPropertyKey: the array [s] converts to the string s
ToPropertyKey(tid) == tid.key

\* truthiness of data.tid: an absent field or an empty string is falsy,
\* every array is truthy
Truthy(tid) == tid # NoTid

\* strict equality r.teamId === tid: strings by value, arrays by identity,
\* and the array of a payload is a fresh object on every event
StrictEquals(a, b) == a.form = "string" /\ b.form = "string" /\ a.key = b.key

\* teams[tid]: <<value>>, or <<>> when the lookup yields undefined
TeamLookup(tid) ==
  LET k == ToPropertyKey(tid) IN
  IF k \in DOMAIN teams THEN <<teams[k]>>
  ELSE IF k \in InheritedKeys THEN <<InheritedValue(k)>>
  ELSE <<>>

(***************************************************************************)
(* Payloads of the inbound events.                                         *)
(***************************************************************************)
AddTeamPayloads ==
  {NoData, [name |-> Missing, color |-> "red"],
   [name |-> "A", color |-> "red"], [name |-> "B", color |-> Missing]}

BuzzPayloads == {NoData} \cup [tid : TidValues \cup {NoTid}]

RegisterPayloads ==
  {NoData, [role |-> "admin", tid |-> NoTid],
   [role |-> "team", tid |-> [form |-> "string", key |-> generateId(1, 1)]]}

(***************************************************************************)
(* Outbound messages. socket.io encodes a packet with JSON.stringify when  *)
(* emit is called, so a message carries the value the state had then, and  *)
(* a property whose value is undefined is left out of the encoding.        *)
(***************************************************************************)
ToJSONEntry(e) ==
  IF e.color = Undefined
  THEN [teamId |-> e.teamId, teamName |-> e.teamName, position |-> e.position]
  ELSE e

ToJSONRanked(r) == [i \in 1..Len(r) |-> ToJSONEntry(r[i])]

\* a message: the event name and its argument (teams for teamListUpdate,
\* ranked for buzzerResult, none for the two signals)
TeamListUpdateMsg(t) == [event |-> "teamListUpdate", teams |-> t, ranked |-> <<>>]
BuzzerResultMsg(r) == [event |-> "buzzerResult", teams |-> <<>>, ranked |-> ToJSONRanked(r)]
QuestionStartedMsg == [event |-> "questionStarted", teams |-> <<>>, ranked |-> <<>>]
QuestionResetMsg == [event |-> "questionReset", teams |-> <<>>, ranked |-> <<>>]

Broadcast_Registered(msgs) ==
  [c \in Conns |-> IF live[c] /\ meta[c].role # Undefined THEN msgs ELSE <<>>]

\* io.emit: every connected socket receives the messages, in order
Broadcast(msgs) == [c \in Conns |-> IF live[c] THEN msgs ELSE <<>>]

\* socket.emit: only this socket receives them
EmitTo(s, msgs) == [c \in Conns |-> IF c = s THEN msgs ELSE <<>>]

\* a handler that returns without emitting
EmitNothing == [c \in Conns |-> <<>>]

emitTeamListUpdate(t) == <<TeamListUpdateMsg(t)>>
emitBuzzerResult_Silent(r) == <<>>
emitBuzzerResult(r) == <<BuzzerResultMsg(r)>>

(***************************************************************************)
(* Initial state: server started, nobody connected.                        *)
(***************************************************************************)
NoMeta == [role |-> Undefined, teamId |-> NoTid]
\* a client holds <<payload>> of each kind once it has received one
NoView == [teams |-> <<>>, ranked |-> <<>>, phase |-> <<>>]
NoLog == "Server listening"
\* log of a handler that returns without writing a line
NoLine == "(no line)"

Init ==
  /\ teams = <<>>
  /\ ranked = <<>>
  /\ questionActive = FALSE
  /\ live = [c \in Conns |-> FALSE]
  /\ meta = [c \in Conns |-> NoMeta]
  /\ sent = EmitNothing
  /\ inbox = [c \in Conns |-> <<>>]
  /\ view = [c \in Conns |-> NoView]
  /\ log = NoLog

(***************************************************************************)
(* Connection, registration, disconnection.                                *)
(***************************************************************************)
Connect(s) ==
  /\ ~live[s]
  /\ live' = [live EXCEPT ![s] = TRUE]
  /\ meta' = [meta EXCEPT ![s] = NoMeta]
  /\ sent' = EmitNothing
  /\ log' = "Socket connected"
  /\ UNCHANGED <<teams, ranked, questionActive>>

RegisterRole(payload) ==
  IF payload = NoData \/ payload.role = Missing THEN "guest" ELSE payload.role

RegisterTeamId(old, payload) ==
  IF payload # NoData /\ payload.role = "team" /\ Truthy(payload.tid)
  THEN payload.tid
  ELSE old

RegisterSnapshot_AlwaysReset ==
  <<TeamListUpdateMsg(teams), BuzzerResultMsg(ranked), QuestionResetMsg>>

RegisterSnapshot ==
  <<TeamListUpdateMsg(teams), BuzzerResultMsg(ranked),
    IF questionActive THEN QuestionStartedMsg ELSE QuestionResetMsg>>

Register_ToAll(s, payload) ==
  /\ live[s]
  /\ meta' = [meta EXCEPT ![s] = [role |-> RegisterRole(payload),
                                  teamId |-> RegisterTeamId(meta[s].teamId, payload)]]
  /\ log' = "registered"
  /\ sent' = Broadcast(RegisterSnapshot)
  /\ UNCHANGED <<teams, ranked, questionActive, live>>

Register(s, payload) ==
  /\ live[s]
  /\ meta' = [meta EXCEPT ![s] = [role |-> RegisterRole(payload),
                                  teamId |-> RegisterTeamId(meta[s].teamId, payload)]]
  /\ log' = "registered"
  /\ sent' = EmitTo(s, RegisterSnapshot)
  /\ UNCHANGED <<teams, ranked, questionActive, live>>

Disconnect_EndsRound(s) ==
  /\ live[s]
  /\ live' = [live EXCEPT ![s] = FALSE]
  /\ meta' = [meta EXCEPT ![s] = NoMeta]
  /\ sent' = EmitNothing
  /\ log' = "Socket disconnected"
  /\ questionActive' = FALSE
  /\ UNCHANGED <<teams, ranked>>

Disconnect(s) ==
  /\ live[s]
  /\ live' = [live EXCEPT ![s] = FALSE]
  /\ meta' = [meta EXCEPT ![s] = NoMeta]
  /\ sent' = EmitNothing
  /\ log' = "Socket disconnected"
  /\ UNCHANGED <<teams, ranked, questionActive>>

(***************************************************************************)
(* Admin events.                                                           *)
(***************************************************************************)
NewTeam(id, data) ==
  [id |-> id, name |-> data.name,
   color |-> IF data.color = Missing THEN "#000" ELSE data.color]

PutTeam(t, id, rec) == [k \in DOMAIN t \cup {id} |-> IF k = id THEN rec ELSE t[k]]

AddTeamRejected(data) == data = NoData \/ data.name = Missing

AddTeam(s, data) ==
  /\ live[s]
  /\ IF AddTeamRejected(data)
     THEN /\ sent' = EmitNothing
          /\ log' = NoLine
          /\ UNCHANGED <<teams, ranked, questionActive, live, meta>>
     ELSE \E t \in Times, r \in Rands :
            LET id == generateId(t, r) IN
            /\ teams' = PutTeam(teams, id, NewTeam(id, data))
            /\ log' = "Team added"
            /\ sent' = Broadcast(emitTeamListUpdate(teams'))
            /\ UNCHANGED <<ranked, questionActive, live, meta>>

ClearAllTeams_KeepRound(s) ==
  /\ live[s]
  /\ log' = "Clearing all teams"
  /\ teams' = <<>>
  /\ ranked' = <<>>
  /\ sent' = Broadcast(emitTeamListUpdate(teams') \o <<QuestionResetMsg>>
                       \o emitBuzzerResult(ranked'))
  /\ UNCHANGED <<questionActive, live, meta>>

ClearAllTeams(s) ==
  /\ live[s]
  /\ log' = "Clearing all teams"
  /\ teams' = <<>>
  /\ ranked' = <<>>
  /\ questionActive' = FALSE
  /\ sent' = Broadcast(emitTeamListUpdate(teams') \o <<QuestionResetMsg>>
                        \o emitBuzzerResult(ranked'))
  /\ UNCHANGED <<live, meta>>

StartQuestion_KeepRanked(s) ==
  /\ live[s]
  /\ questionActive' = TRUE
  /\ log' = "Question started"
  /\ sent' = Broadcast(<<QuestionStartedMsg>> \o emitBuzzerResult(ranked))
  /\ UNCHANGED <<teams, ranked, live, meta>>

StartQuestion_AdminOnly(s) ==
  /\ live[s]
  /\ meta[s].role = "admin"
  /\ questionActive' = TRUE
  /\ ranked' = <<>>
  /\ log' = "Question started"
  /\ sent' = Broadcast(<<QuestionStartedMsg>> \o emitBuzzerResult(ranked'))
  /\ UNCHANGED <<teams, live, meta>>

StartQuestion(s) ==
  /\ live[s]
  /\ questionActive' = TRUE
  /\ ranked' = <<>>
  /\ log' = "Question started"
  /\ sent' = Broadcast(<<QuestionStartedMsg>> \o emitBuzzerResult(ranked'))
  /\ UNCHANGED <<teams, live, meta>>

ResetQuestion_KeepRanked(s) ==
  /\ live[s]
  /\ questionActive' = FALSE
  /\ log' = "Question reset"
  /\ sent' = Broadcast(<<QuestionResetMsg>> \o emitBuzzerResult(ranked))
  /\ UNCHANGED <<teams, ranked, live, meta>>

ResetQuestion(s) ==
  /\ live[s]
  /\ questionActive' = FALSE
  /\ ranked' = <<>>
  /\ log' = "Question reset"
  /\ sent' = Broadcast(<<QuestionResetMsg>> \o emitBuzzerResult(ranked'))
  /\ UNCHANGED <<teams, live, meta>>

(***************************************************************************)
(* Team events.                                                            *)
(***************************************************************************)
FindRanked(r, tid) == \E i \in 1..Len(r) : StrictEquals(r[i].teamId, tid)

BuzzOutcome_NoIdleCheck(data) ==
  IF data = NoData \/ ~Truthy(data.tid) THEN "NoTid"
  ELSE IF TeamLookup(data.tid) = <<>> THEN "Unknown team pressed buzzer"
  ELSE IF FindRanked(ranked, data.tid) THEN "Duplicate buzzer"
  ELSE "Buzzer"

\* the branch the handler takes, named after the line it logs
BuzzOutcome(data) ==
  IF data = NoData \/ ~Truthy(data.tid) THEN "NoTid"
  ELSE IF TeamLookup(data.tid) = <<>> THEN "Unknown team pressed buzzer"
  ELSE IF ~questionActive THEN "Buzzer pressed while idle (ignored)"
  ELSE IF FindRanked(ranked, data.tid) THEN "Duplicate buzzer"
  ELSE "Buzzer"

BuzzItem_ZeroBased(tid) ==
  LET team == TeamLookup(tid)[1] IN
  [teamId |-> tid, teamName |-> team.name, color |-> team.color,
   position |-> Len(ranked)]

BuzzItem(tid) ==
  LET team == TeamLookup(tid)[1] IN
  [teamId |-> tid, teamName |-> team.name, color |-> team.color,
   position |-> Len(ranked) + 1]

BuzzerPress_EchoOnReject(s, data) ==
  /\ live[s]
  /\ LET outcome == BuzzOutcome(data) IN
     CASE outcome = "NoTid" ->
            /\ sent' = EmitNothing
            /\ log' = NoLine
            /\ UNCHANGED <<teams, ranked, questionActive, live, meta>>
       [] outcome = "Buzzer" ->
            /\ Len(ranked) < MaxRanked
            /\ ranked' = Append(ranked, BuzzItem(data.tid))
            /\ log' = outcome
            /\ sent' = Broadcast(emitBuzzerResult(ranked'))
            /\ UNCHANGED <<teams, questionActive, live, meta>>
       [] OTHER ->
            /\ log' = outcome
            /\ sent' = EmitTo(s, emitBuzzerResult(ranked))
            /\ UNCHANGED <<teams, ranked, questionActive, live, meta>>

BuzzerPress_Unshift(s, data) ==
  /\ live[s]
  /\ LET outcome == BuzzOutcome(data) IN
     CASE outcome = "NoTid" ->
            /\ sent' = EmitNothing
            /\ log' = NoLine
            /\ UNCHANGED <<teams, ranked, questionActive, live, meta>>
       [] outcome = "Buzzer" ->
            /\ Len(ranked) < MaxRanked
            /\ ranked' = <<BuzzItem(data.tid)>> \o ranked
            /\ log' = outcome
            /\ sent' = Broadcast(emitBuzzerResult(ranked'))
            /\ UNCHANGED <<teams, questionActive, live, meta>>
       [] OTHER ->
            /\ log' = outcome
            /\ sent' = EmitNothing
            /\ UNCHANGED <<teams, ranked, questionActive, live, meta>>

BuzzerPress(s, data) ==
  /\ live[s]
  /\ LET outcome == BuzzOutcome(data) IN
     CASE outcome = "NoTid" ->
            /\ sent' = EmitNothing
            /\ log' = NoLine
            /\ UNCHANGED <<teams, ranked, questionActive, live, meta>>
       [] outcome = "Buzzer" ->
            /\ Len(ranked) < MaxRanked
            /\ ranked' = Append(ranked, BuzzItem(data.tid))
            /\ log' = outcome
            /\ sent' = Broadcast(emitBuzzerResult(ranked'))
            /\ UNCHANGED <<teams, questionActive, live, meta>>
       [] OTHER ->
            /\ log' = outcome
            /\ sent' = EmitNothing
            /\ UNCHANGED <<teams, ranked, questionActive, live, meta>>

(***************************************************************************)
(* The server alone: one handler runs per step.                            *)
(***************************************************************************)
ServerOnly == UNCHANGED <<inbox, view>>

Next ==
  \/ \E s \in Conns : Connect(s) /\ ServerOnly
  \/ \E s \in Conns : \E payload \in RegisterPayloads : Register(s, payload) /\ ServerOnly
  \/ \E s \in Conns : Disconnect(s) /\ ServerOnly
  \/ \E s \in Conns : \E data \in AddTeamPayloads : AddTeam(s, data) /\ ServerOnly
  \/ \E s \in Conns : ClearAllTeams(s) /\ ServerOnly
  \/ \E s \in Conns : StartQuestion(s) /\ ServerOnly
  \/ \E s \in Conns : ResetQuestion(s) /\ ServerOnly
  \/ \E s \in Conns : \E data \in BuzzPayloads : BuzzerPress(s, data) /\ ServerOnly

Spec == Init /\ [][Next]_vars

(***************************************************************************)
(* The server with its clients. What a handler emits to a socket is queued *)
(* on that connection behind the messages still in flight; a socket that   *)
(* connects or disconnects starts from an empty queue and an empty view.   *)
(***************************************************************************)
\* a handler that emits to socket c runs while c has at most MaxPending
\* messages of earlier handlers undelivered
Room(c) == Len(inbox[c]) <= MaxPending

Transmit ==
  /\ \A c \in Conns : sent'[c] # <<>> => Room(c)
  /\ inbox' = [c \in Conns |->
                IF live[c] /\ live'[c] THEN inbox[c] \o sent'[c] ELSE <<>>]
  /\ view' = [c \in Conns |-> IF live[c] /\ live'[c] THEN view[c] ELSE NoView]

\* the client side of a connection: the next message arrives and replaces
\* what the client holds of that kind
Receive(v, msg) ==
  CASE msg.event = "teamListUpdate" -> [v EXCEPT !.teams = <<msg.teams>>]
    [] msg.event = "buzzerResult" -> [v EXCEPT !.ranked = <<msg.ranked>>]
    [] msg.event = "questionStarted" -> [v EXCEPT !.phase = <<"started">>]
    [] msg.event = "questionReset" -> [v EXCEPT !.phase = <<"reset">>]

Deliver(s) ==
  /\ live[s]
  /\ inbox[s] # <<>>
  /\ view' = [view EXCEPT ![s] = Receive(view[s], Head(inbox[s]))]
  /\ inbox' = [inbox EXCEPT ![s] = Tail(inbox[s])]
  /\ UNCHANGED <<teams, ranked, questionActive, live, meta, sent, log>>

\* the payloads the clients send in SpecNet: one of each kind the handlers
\* tell apart
NetRegisterPayloads == {NoData}

NetAddTeamPayloads == {NoData, [name |-> "A", color |-> "red"]}

NetBuzzPayloads == {NoData} \cup [tid : [form : {"string"}, key : PropertyKeys] \cup {NoTid}]

NextNet ==
  \/ \E s \in Conns : Connect(s) /\ Transmit
  \/ \E s \in Conns : \E payload \in NetRegisterPayloads : Register(s, payload) /\ Transmit
  \/ \E s \in Conns : Disconnect(s) /\ Transmit
  \/ \E s \in Conns : \E data \in NetAddTeamPayloads : AddTeam(s, data) /\ Transmit
  \/ \E s \in Conns : ClearAllTeams(s) /\ Transmit
  \/ \E s \in Conns : StartQuestion(s) /\ Transmit
  \/ \E s \in Conns : ResetQuestion(s) /\ Transmit
  \/ \E s \in Conns : \E data \in NetBuzzPayloads : BuzzerPress(s, data) /\ Transmit
  \/ \E s \in Conns : Deliver(s)

SpecNet == Init /\ [][NextNet]_vars

(***************************************************************************)
(* Properties.                                                             *)
(***************************************************************************)
\* the team a tid names, and whether the registry holds it
Registered(tid) == ToPropertyKey(tid) \in DOMAIN teams
AlreadyRanked(r, tid) ==
  \E i \in 1..Len(r) : ToPropertyKey(r[i].teamId) = ToPropertyKey(tid)
HasTid(data) == data # NoData /\ Truthy(data.tid)

\* C1: within a round the ranking is the sequence of distinct registered
\* teams in the order their first buzz was processed: a buzz appends its
\* team at the next position when the round is active, the team is
\* registered and not yet ranked, and changes nothing otherwise.
C1_RankingIsFirstBuzzOrder ==
  [][\A s \in Conns : \A data \in BuzzPayloads :
       BuzzerPress(s, data) =>
         ranked' =
           IF HasTid(data) /\ questionActive /\ Registered(data.tid)
              /\ ~AlreadyRanked(ranked, data.tid)
           THEN Append(ranked,
                       [teamId |-> data.tid,
                        teamName |-> teams[ToPropertyKey(data.tid)].name,
                        color |-> teams[ToPropertyKey(data.tid)].color,
                        position |-> Len(ranked) + 1])
           ELSE ranked]_vars

\* C2: the i-th entry of ranked has position i.
C2_PositionsGapless == \A i \in 1..Len(ranked) : ranked[i].position = i

C2_Witness ==
  /\ Len(ranked) = 2
  /\ log = "Buzzer"

\* C3: no two entries of ranked have the same teamId.
C3_DistinctTeamIds ==
  \A i, j \in 1..Len(ranked) : i # j => ranked[i].teamId # ranked[j].teamId

\* C4: while the round is Idle the ranking is empty.
C4_IdleRankingEmpty == ~questionActive => ranked = <<>>

C4_Witness ==
  /\ ~questionActive
  /\ log = "Question reset"
  /\ teams # <<>>

\* what a client shows once it holds the server's present state
ViewOf(t, r, active) ==
  [teams |-> <<t>>, ranked |-> <<ToJSONRanked(r)>>,
   phase |-> <<IF active THEN "started" ELSE "reset">>]

IsRegistered(c) == live[c] /\ meta[c].role # Undefined

C6_UnknownTeamRejected ==
  [][\A s \in Conns : \A data \in BuzzPayloads :
       (BuzzerPress(s, data) /\ HasTid(data) /\ ~Registered(data.tid)) =>
         /\ ranked' = ranked
         /\ log' = "Unknown team pressed buzzer"]_vars

\* C7 as stated: every buzzerPress processed while the round is Idle is
\* rejected as RoundNotActive and the ranking stays empty.
C7_IdleBuzzRoundNotActive ==
  [][\A s \in Conns : \A data \in BuzzPayloads :
       (BuzzerPress(s, data) /\ HasTid(data) /\ ~questionActive) =>
         /\ ranked' = <<>>
         /\ log' = "Buzzer pressed while idle (ignored)"]_vars

\* C7, amended: every buzzerPress processed while the round is Idle is
\* rejected and the ranking stays empty; it is rejected as RoundNotActive
\* when its tid resolves in the team lookup, as an unknown team when it does
\* not, and without a line when the payload has no tid.
C7_IdleBuzzRejected ==
  [][\A s \in Conns : \A data \in BuzzPayloads :
       (BuzzerPress(s, data) /\ ~questionActive) =>
         /\ ranked' = <<>>
         /\ questionActive' = FALSE
         /\ sent' = EmitNothing
         /\ log' = IF ~HasTid(data) THEN NoLine
                   ELSE IF TeamLookup(data.tid) = <<>>
                        THEN "Unknown team pressed buzzer"
                        ELSE "Buzzer pressed while idle (ignored)"]_vars

C7_Witness ==
  /\ log = "Buzzer pressed while idle (ignored)"
  /\ ranked = <<>>
  /\ teams # <<>>

\* C8: every accepted addTeam adds one entry to the Team Registry under an
\* id of its own and leaves the earlier teams as they were.
C8_OneEntryPerAddTeam ==
  [][\A s \in Conns : \A data \in AddTeamPayloads :
       (AddTeam(s, data) /\ ~AddTeamRejected(data)) =>
         /\ Cardinality(DOMAIN teams') = Cardinality(DOMAIN teams) + 1
         /\ \A k \in DOMAIN teams : teams'[k] = teams[k]]_vars

\* C9: clearAllTeams leaves an empty Team Registry, the round Idle and an
\* empty ranking.
C9_ClearYieldsEmptyIdle ==
  log = "Clearing all teams" =>
    /\ teams = <<>>
    /\ ~questionActive
    /\ ranked = <<>>

C9_Witness ==
  /\ log = "Clearing all teams"
  /\ \E c \in Conns : Len(sent[c]) = 3

C11_StartAndResetClear ==
  /\ log = "Question started" => questionActive /\ ranked = <<>>
  /\ log = "Question reset" => ~questionActive /\ ranked = <<>>

C11_Witness ==
  /\ log = "Question started"
  /\ questionActive
  /\ \E c \in Conns : sent[c] = <<QuestionStartedMsg, BuzzerResultMsg(<<>>)>>

ToAllLive(msgs) == [c \in Conns |-> IF live[c] THEN msgs ELSE <<>>]

\* C13: every mutation broadcasts to all connections, once, the full state
\* it leaves behind: the teams after addTeam; the teams, the reset signal
\* and the ranking after clearAllTeams; the phase signal and the ranking
\* after startQuestion and resetQuestion; the ranking after a buzz.
C13_MutationBroadcastsSnapshot ==
  /\ log = "Team added" => sent = ToAllLive(<<TeamListUpdateMsg(teams)>>)
  /\ log = "Clearing all teams" =>
       sent = ToAllLive(<<TeamListUpdateMsg(teams), QuestionResetMsg,
                          BuzzerResultMsg(ranked)>>)
  /\ log = "Question started" =>
       sent = ToAllLive(<<QuestionStartedMsg, BuzzerResultMsg(ranked)>>)
  /\ log = "Question reset" =>
       sent = ToAllLive(<<QuestionResetMsg, BuzzerResultMsg(ranked)>>)
  /\ log = "Buzzer" => sent = ToAllLive(<<BuzzerResultMsg(ranked)>>)

C13_Witness ==
  /\ log = "Buzzer"
  /\ \A c \in Conns : live[c] /\ Len(sent[c]) = 1
  /\ \E c \in Conns : meta[c].role = Undefined
  /\ Len(ranked) = 2

\* C14: across every step the ranking stays as it is, gains one entry at
\* the end, or becomes empty.
C14_RankingAppendOnly ==
  [][\/ ranked' = ranked
     \/ ranked' = <<>>
     \/ /\ Len(ranked') = Len(ranked) + 1
        /\ SubSeq(ranked', 1, Len(ranked)) = ranked]_vars

C14_Witness ==
  /\ Len(ranked) = 2
  /\ log = "Team added"

\* C15: a team record stays in the Team Registry, unchanged, across every
\* step other than clearAllTeams.
C15_TeamsImmutable ==
  [][log' # "Clearing all teams" =>
       \A k \in DOMAIN teams : k \in DOMAIN teams' /\ teams'[k] = teams[k]]_vars

\* C16: an Active round stays Active across every step other than
\* resetQuestion and clearAllTeams.
C16_ActiveUntilReset ==
  [][(questionActive /\ log' \notin {"Question reset", "Clearing all teams"})
       => questionActive']_vars

C16_Witness ==
  /\ questionActive
  /\ log = "Socket disconnected"
  /\ \A c \in Conns : ~live[c]

\* C17: a connection's teamId is present only when its role is team.
C17_TeamIdOnlyForTeam ==
  \A c \in Conns : meta[c].teamId # NoTid => meta[c].role = "team"

\* the lines a step of addTeam and of buzzerPress can leave in the log
AddTeamLines == {NoLine, "Team added"}
BuzzLines ==
  {NoLine, "Unknown team pressed buzzer", "Buzzer pressed while idle (ignored)",
   "Duplicate buzzer", "Buzzer"}

\* C18: the outcome of addTeam, clearAllTeams, startQuestion, resetQuestion
\* and buzzerPress does not depend on the sender's registration: a step one
\* connected socket can take with an event is, with the same result, a step
\* of that event sent by any other connected socket, whatever role and
\* teamId either has registered, if any.
C18_SenderIndependent ==
  [][\A s1, s2 \in Conns :
       (s1 # s2 /\ live[s1] /\ live[s2]) =>
         /\ log' \in AddTeamLines =>
              \A data \in AddTeamPayloads : AddTeam(s1, data) => AddTeam(s2, data)
         /\ ClearAllTeams(s1) => ClearAllTeams(s2)
         /\ StartQuestion(s1) => StartQuestion(s2)
         /\ ResetQuestion(s1) => ResetQuestion(s2)
         /\ log' \in BuzzLines =>
              \A data \in BuzzPayloads :
                BuzzerPress(s1, data) => BuzzerPress(s2, data)]_vars

C18_Witness ==
  /\ log = "Question started"
  /\ \A c \in Conns : live[c]
  /\ \E c1, c2 \in Conns :
       /\ meta[c1].role = "admin"
       /\ meta[c2].role = Undefined

\* C19: connecting, registering and disconnecting leave teams, ranked and
\* questionActive unchanged and send nothing to any connection other than
\* the one that registers.
C19_ConnectionEventsFrame ==
  [][\A s \in Conns :
       /\ (Connect(s) \/ Disconnect(s)) =>
            /\ UNCHANGED <<teams, ranked, questionActive>>
            /\ \A c \in Conns : sent'[c] = <<>>
       /\ (\E payload \in RegisterPayloads : Register(s, payload)) =>
            /\ UNCHANGED <<teams, ranked, questionActive>>
            /\ \A c \in Conns \ {s} : sent'[c] = <<>>]_vars

C19_Witness ==
  /\ log = "registered"
  /\ \A c \in Conns : live[c]
  /\ teams # <<>>
  /\ \E c \in Conns : sent[c] = <<>>
  /\ \E c \in Conns : Len(sent[c]) = 3

\* C20: every entry of ranked refers to a team that is in the Team
\* Registry, with that team's name and color.
C20_RankedMatchesRegistry ==
  \A i \in 1..Len(ranked) :
    LET k == ToPropertyKey(ranked[i].teamId) IN
    /\ k \in DOMAIN teams
    /\ teams[k].name = ranked[i].teamName
    /\ teams[k].color = ranked[i].color

====
